---- MODULE Spec2Model ----
(***************************************************************************)
(* Model of gen.py, the static-site generator: delete _site, copy static   *)
(* into _site, walk content/** mirroring directories and rendering every   *)
(* Markdown file through the post template, then render the index.         *)
(*                                                                         *)
(* Strings are sequences of one-character strings, so that str.replace and *)
(* str.endswith are computed character by character as Python does.  The   *)
(* platform is the one the script is written for: os.sep is the backslash  *)
(* (glob yields "content\\p\\a.md"), and "/" is accepted as a separator by *)
(* the file system calls.                                                  *)
(***************************************************************************)
EXTENDS Integers, Sequences, FiniteSets, TLC

VARIABLES content, meta, static, fs, pc, run, i, pages, err, rmErr,
          indexCalls, attempted, opens, lastCtx, failedFile, faulted, prevOut

vars == <<content, meta, static, fs, pc, run, i, pages, err, rmErr,
          indexCalls, attempted, opens, lastCtx, failedFile, faulted, prevOut>>

(* ------------------------------ bounds -------------------------------- *)

\* largest number of entries (directories and files) below content/
MaxEntries == 3
\* number of successive runs of the script
MaxRuns == 2

(* ------------------------- string literals ---------------------------- *)

BS == <<"\\">>
ContentName == <<"c", "o", "n", "t", "e", "n", "t">>
SiteName == <<"_", "s", "i", "t", "e">>
DotMd == <<".", "m", "d">>
DotHtml == <<".", "h", "t", "m", "l">>
IndexHtml == <<"i", "n", "d", "e", "x">> \o DotHtml
\* the literal "content\\" of lines 34 and 56
ContentBS == ContentName \o BS
\* the literal "_site\\" of lines 34 and 59
SiteBS == SiteName \o BS
\* the literal "_site/index.html" of line 14
IndexPathStr == SiteName \o <<"/">> \o IndexHtml

(* ------------------------- str operations ----------------------------- *)

\* str.endswith
EndsWith(s, suf) ==
    Len(s) >= Len(suf) /\ SubSeq(s, Len(s) - Len(suf) + 1, Len(s)) = suf

\* str.replace(old, new): every non-overlapping occurrence, left to right
RECURSIVE Replace(_, _, _)
Replace(s, old, new) ==
    IF Len(s) < Len(old) THEN s
    ELSE IF SubSeq(s, 1, Len(old)) = old
         THEN new \o Replace(SubSeq(s, Len(old) + 1, Len(s)), old, new)
         ELSE <<s[1]>> \o Replace(Tail(s), old, new)

IsSep(c) == c = "\\" \/ c = "/"

\* the components of a path string: split at either separator, empty
\* components (a trailing separator) dropped
RECURSIVE SplitFrom(_, _)
SplitFrom(s, cur) ==
    IF s = <<>> THEN (IF cur = <<>> THEN <<>> ELSE <<cur>>)
    ELSE IF IsSep(s[1])
         THEN (IF cur = <<>> THEN <<>> ELSE <<cur>>) \o SplitFrom(Tail(s), <<>>)
         ELSE SplitFrom(Tail(s), Append(cur, s[1]))

SplitPath(s) == SplitFrom(s, <<>>)

\* os.path.join of components
RECURSIVE JoinPath(_)
JoinPath(p) ==
    IF Len(p) = 0 THEN <<>>
    ELSE IF Len(p) = 1 THEN p[1]
    ELSE p[1] \o BS \o JoinPath(Tail(p))

Parent(p) == SubSeq(p, 1, Len(p) - 1)
IsPrefix(p, q) == Len(p) <= Len(q) /\ SubSeq(q, 1, Len(p)) = p

(* --------------------------- dict operations -------------------------- *)
\* A Python dict is a sequence of <<key, value>> pairs in insertion order.

DictKeys(d) == {d[k][1] : k \in 1..Len(d)}
DictHas(d, key) == key \in DictKeys(d)
DictGet(d, key) == d[CHOOSE k \in 1..Len(d) : d[k][1] = key][2]

\* d[key] = val
DictSet(d, key, val) ==
    IF DictHas(d, key)
    THEN [k \in 1..Len(d) |-> IF d[k][1] = key THEN <<key, val>> ELSE d[k]]
    ELSE Append(d, <<key, val>>)

\* d.update(other)
RECURSIVE DictUpdate(_, _)
DictUpdate(d, other) ==
    IF other = <<>> THEN d
    ELSE DictUpdate(DictSet(d, other[1][1], other[1][2]), Tail(other))

(* ------------------------- the input trees ---------------------------- *)
\* An entry below content/ is the sequence of its path components.  A name
\* is a directory name or a file name, never both.

NameP == <<"p">>
NameMyContent == <<"m", "y">> \o ContentName
NameXMd == <<"x">> \o DotMd
NameAMd == <<"a">> \o DotMd
NameIndexMd == <<"i", "n", "d", "e", "x">> \o DotMd
NamePng == <<"l", ".", "p", "n", "g">>
NameCss == <<"s", ".", "c", "s", "s">>
NameOld == <<"o", "l", "d">> \o DotHtml

DirNames == {NameP, NameMyContent, NameXMd}
FileNames == {NameAMd, NameIndexMd, NamePng}
Names == DirNames \cup FileNames

\* the order in which a directory lists its entries (os.scandir); it is
\* a property of the directory, the same on every run over unchanged input
ListOrder == <<NameAMd, NameIndexMd, NamePng, NameMyContent, NameP, NameXMd>>

\* the entries a content tree is drawn from: every name directly below
\* content/, and a Markdown file and another file in every directory
Universe ==
    {<<n>> : n \in Names} \cup {<<d, n>> : d \in DirNames, n \in {NameAMd, NamePng}}

IsDirEntry(e) == e[Len(e)] \in DirNames

PrefixClosed(t) == \A e \in t : Len(e) > 1 => Parent(e) \in t

Trees == {t \in SUBSET Universe : Cardinality(t) <= MaxEntries /\ PrefixClosed(t)}

\* the static/ trees: empty, one file, a directory holding one file
StaticTrees == { {}, {<<NameCss>>}, {<<NameP>>, <<NameP, NameCss>>} }

\* front-matter of a Markdown file, as the metadata extra returns it
MetaChoices == { <<>>,
                 << <<"slug", <<"c", "u", "s", "t", "o", "m">> >> >>,
                 << <<"title", <<"H", "i">> >>,
                    <<"content", <<"s", "p", "o", "o", "f">> >> >> }

(* ------------------------- the file system ---------------------------- *)
\* fs maps the component path of every entry at or below _site to its
\* entry; the working directory itself always exists.

Root == <<SiteName>>
DirEntry == [kind |-> "dir", data |-> <<>>]
FileEntry(d) == [kind |-> "file", data |-> d]
EmptyFs == [p \in {} |-> DirEntry]

Put(f, p, e) == [q \in DOMAIN f \cup {p} |-> IF q = p THEN e ELSE f[q]]
Exists(f, p) == p \in DOMAIN f
IsDir(f, p) == p = <<>> \/ (p \in DOMAIN f /\ f[p].kind = "dir")
IsFile(f, p) == p \in DOMAIN f /\ f[p].kind = "file"

\* what a previous build left behind
OldSite ==
    Put(Put(Put(EmptyFs, Root, DirEntry),
            <<SiteName, NameOld>>, FileEntry(<<"old">>)),
        <<SiteName, <<"a">> \o DotHtml>>, FileEntry(<<"old">>))

\* shutil.rmtree(root) that succeeds: root and everything below it is gone
RmtreeLeavesRoot(f, root) ==
    [q \in {r \in DOMAIN f : r = root \/ ~IsPrefix(root, r)} |-> f[q]]

RmtreeResult(f, root) ==
    [q \in {r \in DOMAIN f : ~IsPrefix(root, r)} |-> f[q]]

\* shutil.rmtree(root) that raises partway: root is removed last, so it is
\* still there; nothing, or the files below it, may already be gone
PartialDeletes(f, root) ==
    { f,
      [q \in {r \in DOMAIN f : ~IsPrefix(root, r) \/ f[r].kind = "dir"} |-> f[q]] }

\* shutil.copytree(src, dst) calls os.makedirs(dst), which raises
\* FileExistsError when dst exists
CopytreeDirsExistOk(f) == FALSE

CopytreeFails(f) == Exists(f, Root)

StaticEntry(e) ==
    IF IsDirEntry(e) THEN DirEntry ELSE FileEntry(<<"static", JoinPath(e)>>)

MkdirOnly(f, st) == Put(f, Root, DirEntry)

\* the tree shutil.copytree("static", "_site") leaves
CopytreeResult(f, st) ==
    [q \in DOMAIN f \cup {Root} \cup {Root \o e : e \in st} |->
        IF q = Root THEN DirEntry
        ELSE IF \E e \in st : q = Root \o e
             THEN StaticEntry(SubSeq(q, 2, Len(q)))
             ELSE f[q]]

\* os.makedirs(p): FileExistsError when p exists, an error when a component
\* of its parent is a file
MakedirsOk(f, p) ==
    /\ ~Exists(f, p)
    /\ \A k \in 1..(Len(p) - 1) : ~IsFile(f, SubSeq(p, 1, k))

MakedirsResult(f, p) ==
    [q \in DOMAIN f \cup {SubSeq(p, 1, k) : k \in 1..Len(p)} |->
        IF q \in DOMAIN f THEN f[q] ELSE DirEntry]

\* open(p, "w"): the parent must be a directory and p must not be one
OpenWOk(f, p) == Len(p) > 0 /\ IsDir(f, Parent(p)) /\ ~IsDir(f, p)

(* ---------------------------- the walk -------------------------------- *)

\* the entries of directory d of tree t in listing order
Listing(t, d) == SelectSeq(ListOrder, LAMBDA n : Append(d, n) \in t)

\* glob's _rlistdir: every entry, a directory directly followed by what is
\* below it
RECURSIVE RListDir(_, _)
RECURSIVE RListNames(_, _, _)
RListNames(t, d, names) ==
    IF names = <<>> THEN <<>>
    ELSE LET e == Append(d, names[1])
         IN  <<e>> \o (IF IsDirEntry(e) THEN RListDir(t, e) ELSE <<>>)
                  \o RListNames(t, d, Tail(names))
RListDir(t, d) == RListNames(t, d, Listing(t, d))

PathStr(e) == JoinPath(<<ContentName>> \o e)

GlobTopLevel(t) ==
    LET top == Listing(t, <<>>)
    IN  <<ContentBS>> \o [k \in 1..Len(top) |-> PathStr(<<top[k]>>)]

\* glob.iglob("content/**", recursive=True): "content\\" itself, then
\* every entry below it
GlobSeq(t) ==
    LET es == RListDir(t, <<>>)
    IN  <<ContentBS>> \o [k \in 1..Len(es) |-> PathStr(es[k])]

\* os.path.isdir of a path the glob yielded
InputIsDir(f) ==
    LET p == SplitPath(f)
    IN  Len(p) = 1 \/ (Tail(p) \in content /\ IsDirEntry(Tail(p)))

MdEntries(t) == {e \in t : ~IsDirEntry(e) /\ EndsWith(e[Len(e)], DotMd)}

(* ------------------------- the collaborators -------------------------- *)

\* markdown(text): the HTML body of the file; the text of a file is
\* determined by the file
Markdown(f) == <<"<", "p", ">">> \o f \o <<"<", "/", "p", ">">>

\* parsed_md.metadata
Metadata(f) == meta[Tail(SplitPath(f))]

\* tplt.render(post=data), tplt.render(pages=pages)
RenderPost(data) == <<"post", data>>
RenderIndex(pgs) == <<"index", pgs>>

(* ------------------------- handle_md helpers -------------------------- *)

\* lines 28-32
PostData(f) == DictUpdate(<< <<"content", Markdown(f)>> >>, Metadata(f))

\* line 34
HtmlFile(f) == Replace(Replace(f, ContentBS, SiteBS), DotMd, DotHtml)

(* ----------------------------- actions -------------------------------- *)

inputs == <<content, meta, static>>
history == <<attempted, opens, lastCtx, failedFile>>

Init ==
    /\ content \in Trees
    /\ meta \in [MdEntries(content) -> MetaChoices]
    /\ static \in StaticTrees
    /\ fs \in {EmptyFs, OldSite}
    /\ pc = "rmtree"
    /\ run = 1
    /\ i = 1
    /\ pages = <<>>
    /\ err = "none"
    /\ rmErr = "none"
    /\ indexCalls = 0
    /\ attempted = <<>>
    /\ opens = <<>>
    /\ lastCtx = <<>>
    /\ failedFile = <<>>
    /\ faulted = FALSE
    /\ prevOut = EmptyFs

RaiseSwallowed(e) == pc' = pc /\ err' = e

\* an exception nothing catches ends the run
Raise(e) == pc' = "aborted" /\ err' = e

\* lines 44-47
Rmtree ==
    /\ pc = "rmtree"
    /\ IF ~Exists(fs, Root)
       THEN fs' = fs /\ rmErr' = "missing" /\ faulted' = faulted
       ELSE \/ fs' = RmtreeResult(fs, Root) /\ rmErr' = "none" /\ faulted' = faulted
            \/ \E part \in PartialDeletes(fs, Root) :
                   fs' = part /\ rmErr' = "other" /\ faulted' = TRUE
    /\ pc' = "copytree"
    /\ UNCHANGED <<inputs, history, run, i, pages, err, indexCalls, prevOut>>

\* lines 50-52
Copytree ==
    /\ pc = "copytree"
    /\ IF CopytreeFails(fs)
       THEN Raise("copytree") /\ UNCHANGED <<fs, i, pages>>
       ELSE /\ fs' = CopytreeResult(fs, static)
            /\ pages' = <<>>
            /\ i' = 1
            /\ pc' = "walk"
            /\ err' = err
    /\ UNCHANGED <<inputs, history, run, rmErr, indexCalls, faulted, prevOut>>

Walking == pc = "walk" /\ i <= Len(GlobSeq(content))
Current == GlobSeq(content)[i]

\* lines 55-59
WalkDir ==
    /\ Walking
    /\ InputIsDir(Current)
    /\ LET f == Replace(Current, ContentBS, <<>>)
           p == SplitPath(SiteBS \o f)
       IN  IF f = <<>>
           THEN UNCHANGED <<fs, pc, err>> /\ i' = i + 1
           ELSE IF MakedirsOk(fs, p)
                THEN fs' = MakedirsResult(fs, p) /\ i' = i + 1 /\ UNCHANGED <<pc, err>>
                ELSE Raise("makedirs") /\ UNCHANGED <<fs, i>>
    /\ UNCHANGED <<inputs, history, run, pages, rmErr, indexCalls, faulted, prevOut>>

\* lines 60-62 and handle_md, lines 17-39
HandleMd ==
    /\ Walking
    /\ ~InputIsDir(Current)
    /\ EndsWith(Current, DotMd)
    /\ LET f == Current
           data == PostData(f)
           html_file == HtmlFile(f)
           p == SplitPath(html_file)
       IN  /\ attempted' = Append(attempted, f)
           /\ \/ \* reading or parsing the file raises
                 /\ Raise("handle_md")
                 /\ failedFile' = f
                 /\ faulted' = TRUE
                 /\ UNCHANGED <<fs, i, pages, opens, lastCtx>>
              \/ \* line 36: the destination is opened for writing
                 /\ lastCtx' = <<f, data>>
                 /\ opens' = Append(opens, [src |-> f, dest |-> html_file,
                                            parentOk |-> IsDir(fs, Parent(p))])
                 /\ IF ~OpenWOk(fs, p)
                    THEN /\ Raise("handle_md")
                         /\ failedFile' = f
                         /\ UNCHANGED <<fs, i, pages, faulted>>
                    ELSE \/ \* rendering raises: the opened file stays empty
                            /\ fs' = Put(fs, p, FileEntry(<<>>))
                            /\ Raise("handle_md")
                            /\ failedFile' = f
                            /\ faulted' = TRUE
                            /\ UNCHANGED <<i, pages>>
                         \/ /\ fs' = Put(fs, p, FileEntry(RenderPost(data)))
                            /\ pages' = DictSet(pages, f, Metadata(f))
                            /\ i' = i + 1
                            /\ UNCHANGED <<pc, err, failedFile, faulted>>
    /\ UNCHANGED <<inputs, run, rmErr, indexCalls, prevOut>>

\* lines 63-64
WalkOther ==
    /\ Walking
    /\ ~InputIsDir(Current)
    /\ ~EndsWith(Current, DotMd)
    /\ i' = i + 1
    /\ UNCHANGED <<inputs, history, fs, pc, run, pages, err, rmErr, indexCalls,
                   faulted, prevOut>>

\* line 67 and make_index, lines 11-15
MakeIndex ==
    /\ pc = "walk"
    /\ i > Len(GlobSeq(content))
    /\ indexCalls' = indexCalls + 1
    /\ LET p == SplitPath(IndexPathStr)
       IN  IF OpenWOk(fs, p)
           THEN /\ fs' = Put(fs, p, FileEntry(RenderIndex(pages)))
                /\ pc' = "done"
                /\ err' = err
           ELSE Raise("make_index") /\ UNCHANGED fs
    /\ UNCHANGED <<inputs, history, run, i, pages, rmErr, faulted, prevOut>>

\* the script is started again on the same inputs
Restart ==
    /\ pc \in {"done", "aborted"}
    /\ run < MaxRuns
    /\ run' = run + 1
    /\ prevOut' = fs
    /\ pc' = "rmtree"
    /\ i' = 1
    /\ pages' = <<>>
    /\ err' = "none"
    /\ rmErr' = "none"
    /\ indexCalls' = 0
    /\ attempted' = <<>>
    /\ opens' = <<>>
    /\ lastCtx' = <<>>
    /\ failedFile' = <<>>
    /\ UNCHANGED <<inputs, fs, faulted>>

Next ==
    \/ Rmtree
    \/ Copytree
    \/ WalkDir
    \/ HandleMd
    \/ WalkOther
    \/ MakeIndex
    \/ Restart

Spec == Init /\ [][Next]_vars

(* ------------------------------ claims -------------------------------- *)

Slug == "slug"
HasSlug(f) == DictHas(Metadata(f), Slug)
MdPaths == {PathStr(e) : e \in MdEntries(content)}
IndexPath == <<SiteName, IndexHtml>>
Ended == pc \in {"done", "aborted"}

\* the source path with its leading "content\\" replaced by "_site\\" and
\* its trailing ".md" replaced by ".html", nothing else touched
MirrorOf(f) ==
    SiteBS \o SubSeq(f, Len(ContentBS) + 1, Len(f) - Len(DotMd)) \o DotHtml

\* C1: a Markdown file without slug metadata is written to its source path
\* with only the leading content root and the trailing extension replaced.
C1_MirroredPath ==
    \A k \in 1..Len(opens) :
        ~HasSlug(opens[k].src) => opens[k].dest = MirrorOf(opens[k].src)

\* C2: a Markdown file with slug metadata S is written to _site\S.html,
\* directly under the output root.
C2_SlugPath ==
    \A k \in 1..Len(opens) :
        HasSlug(opens[k].src) =>
            SplitPath(opens[k].dest) =
                <<SiteName, DictGet(Metadata(opens[k].src), Slug) \o DotHtml>>

C4_OnePagePerPost ==
    pc = "done" =>
        /\ \A j, k \in 1..Len(opens) :
               j # k => SplitPath(opens[j].dest) # SplitPath(opens[k].dest)
        /\ \A k \in 1..Len(opens) :
               /\ SplitPath(opens[k].dest) # IndexPath
               /\ fs[SplitPath(opens[k].dest)].data =
                      RenderPost(PostData(opens[k].src))

\* C5: the render context's content key holds the HTML body of the file,
\* whatever the metadata, and every other metadata key keeps its value.
C5_ContentIsBody ==
    lastCtx # <<>> =>
        /\ DictGet(lastCtx[2], "content") = Markdown(lastCtx[1])
        /\ \A key \in DictKeys(Metadata(lastCtx[1])) \ {"content"} :
               DictGet(lastCtx[2], key) = DictGet(Metadata(lastCtx[1]), key)

\* C6: whenever handle_md opens its destination for writing, the parent
\* directory of the destination exists.
C6_ParentExists ==
    \A k \in 1..Len(opens) : opens[k].parentOk

\* C7: after a deletion failure other than "the output root is missing" the
\* run gets no further than copytree, where it aborts: no post is handled
\* and make_index is not called; a missing output root does not stop the
\* run at the preparation.
C7_DeleteFailureAborts ==
    /\ rmErr = "other" =>
          /\ pc \in {"copytree", "aborted"}
          /\ pc = "aborted" => err = "copytree"
          /\ attempted = <<>>
          /\ opens = <<>>
          /\ indexCalls = 0
    /\ rmErr = "missing" => err # "copytree"

\* the deletion failed partway and the run has aborted
C7_Witness == rmErr = "other" /\ pc = "aborted" /\ fs # OldSite

\* C8: a failure in one Markdown file ends the run at that file: it was
\* attempted once, it is the last one attempted, the walk stands at it,
\* make_index was not called, and the pages written before are in place.
C8_AbortAtFailure ==
    failedFile # <<>> =>
        /\ pc = "aborted"
        /\ err = "handle_md"
        /\ attempted[Len(attempted)] = failedFile
        /\ Cardinality({k \in 1..Len(attempted) : attempted[k] = failedFile}) = 1
        /\ GlobSeq(content)[i] = failedFile
        /\ indexCalls = 0
        /\ \A k \in 1..Len(opens) :
               opens[k].src # failedFile =>
                   /\ IsFile(fs, SplitPath(opens[k].dest))
                   /\ fs[SplitPath(opens[k].dest)].data # <<>>

\* a file failed after another was written and before the walk's last entry
C8_Witness ==
    /\ failedFile # <<>>
    /\ Len(attempted) >= 2
    /\ i < Len(GlobSeq(content))

\* C9: when a run has ended, and no run so far met an injected I/O
\* failure, the output tree equals the one the previous run left.
C9_Idempotent ==
    (run >= 2 /\ Ended /\ ~faulted) => fs = prevOut

\* the second run completed and wrote posts
C9_Witness ==
    run = 2 /\ pc = "done" /\ ~faulted /\ opens # <<>> /\ static # {}

\* C10 as stated: when the walk starts the output root is an empty directory.
C10_EmptyOutputRoot ==
    (pc = "walk" /\ i = 1) => (IsDir(fs, Root) /\ DOMAIN fs = {Root})

\* C10 amended: when the walk starts the output root is a directory that
\* holds exactly the copy of the static tree, and nothing of a previous run.
C10_StaticCopyOnly ==
    (pc = "walk" /\ i = 1) =>
        /\ IsDir(fs, Root)
        /\ DOMAIN fs = {Root} \cup {Root \o e : e \in static}
        /\ \A e \in static : fs[Root \o e] = StaticEntry(e)

\* the walk starts after an old output tree was deleted and a non-empty
\* static tree was copied
C10_Witness ==
    pc = "walk" /\ i = 1 /\ run = 1 /\ rmErr = "none" /\ static # {}
        /\ ~Exists(fs, <<SiteName, NameOld>>)

====
